---- MODULE Spec2Model ----
(***************************************************************************)
(* SciVal LLM data layer: the query functions of src/src/queries.ts over   *)
(* the fixture of src/src/data/mockData.ts, behind the Express handlers of *)
(* src/src/index.ts (GET /api/functions, POST /api/query/:functionName,    *)
(* POST /api/batch).                                                       *)
(*                                                                         *)
(* JavaScript values are tagged records [k, s, n, a]: k is the kind        *)
(* ("undefined", "null", "string", "number", "nan", "object", "function",  *)
(* "array"), s the text of a string, n a number and a the elements of an   *)
(* array.  Numbers are fixed-point, in hundredths, so that the fixture's   *)
(* two-decimal metric values (2.34, 0.68, 14.23) are exact: Num(3) is 3    *)
(* and Dec(2, 34) is 2.34.                                                 *)
(***************************************************************************)
EXTENDS Integers, Sequences, FiniteSets, TLC

VARIABLES
    mockAuthors,       \* mockData.ts: the author collection, in stored order
    mockInstitutions,  \* mockData.ts: the institution collection
    mockJournals,      \* mockData.ts: the journal collection
    mockTrends,        \* mockData.ts: entity id -> series of (year, value)
    queryFunctions,    \* queries.ts: the registry, in key order
    request,           \* the HTTP request the server handled last
    response,          \* the response it sent for that request
    calls,             \* the query functions executed while handling it
    earlier            \* an exchange a client has noted: a request and its response

vars == <<mockAuthors, mockInstitutions, mockJournals, mockTrends,
          queryFunctions, request, response, calls, earlier>>

dataset == <<mockAuthors, mockInstitutions, mockJournals, mockTrends>>

-----------------------------------------------------------------------------
(* JavaScript values *)

Undefined == [k |-> "undefined", s |-> "", n |-> 0, a |-> <<>>]
Null == [k |-> "null", s |-> "", n |-> 0, a |-> <<>>]
NaN == [k |-> "nan", s |-> "", n |-> 0, a |-> <<>>]
Str(t) == [k |-> "string", s |-> t, n |-> 0, a |-> <<>>]
Fixed(h) == [k |-> "number", s |-> "", n |-> h, a |-> <<>>]
Num(i) == Fixed(i * 100)
Dec(i, h) == Fixed(i * 100 + h)
Obj(t) == [k |-> "object", s |-> t, n |-> 0, a |-> <<>>]
Fn(t) == [k |-> "function", s |-> t, n |-> 0, a |-> <<>>]
Arr(elems) == [k |-> "array", s |-> "", n |-> 0, a |-> elems]

\* The properties every plain object inherits from Object.prototype: a
\* lookup obj[key] that finds no own property finds these.
ObjectPrototypeFunctions ==
    {"constructor", "toString", "valueOf", "hasOwnProperty",
     "isPrototypeOf", "propertyIsEnumerable", "toLocaleString"}

InheritedProperty(key) ==
    IF key \in ObjectPrototypeFunctions THEN Fn(key)
    ELSE IF key = "__proto__" THEN Obj("Object.prototype")
    ELSE Undefined

\* !v of JavaScript
Falsy(v) ==
    \/ v.k \in {"undefined", "null", "nan"}
    \/ v.k = "number" /\ v.n = 0
    \/ v.k = "string" /\ v.s = ""

\* b - a where a - b is meant
MinusSwapped(a, b) ==
    IF a.k = "number" /\ b.k = "number" THEN Fixed(b.n - a.n) ELSE NaN

\* |a - b|, the distance between the operands
MinusAbsolute(a, b) ==
    IF a.k = "number" /\ b.k = "number"
    THEN Fixed(IF a.n >= b.n THEN a.n - b.n ELSE b.n - a.n)
    ELSE NaN

\* a - b of JavaScript: NaN unless both operands are numbers
Minus(a, b) ==
    IF a.k = "number" /\ b.k = "number" THEN Fixed(a.n - b.n) ELSE NaN

-----------------------------------------------------------------------------
(* The fixture *)

Entity(id, name, metrics) == [id |-> id, name |-> name, metrics |-> metrics]

FixtureAuthors ==
    << Entity("auth_001", "Dr. Sarah Chen",
           [publications |-> Num(156), citations |-> Num(4823),
            hIndex |-> Num(42), fieldWeightedCitationImpact |-> Dec(2, 34),
            outputsInTopCitationPercentiles |-> Obj("top1:12,top5:28,top10:45")]),
       Entity("auth_002", "Prof. James Anderson",
           [publications |-> Num(203), citations |-> Num(8912),
            hIndex |-> Num(58), fieldWeightedCitationImpact |-> Dec(3, 12),
            outputsInTopCitationPercentiles |-> Obj("top1:18,top5:42,top10:67")]),
       Entity("auth_003", "Dr. Maria Rodriguez",
           [publications |-> Num(89), citations |-> Num(2134),
            hIndex |-> Num(31), fieldWeightedCitationImpact |-> Dec(1, 87),
            outputsInTopCitationPercentiles |-> Obj("top1:5,top5:15,top10:23")]) >>

FixtureInstitutions ==
    << Entity("inst_001", "Massachusetts Institute of Technology",
           [publications |-> Num(12456), citations |-> Num(342891),
            collaborationRate |-> Dec(0, 68),
            fieldWeightedCitationImpact |-> Dec(2, 89),
            academicCorporateCollaboration |-> Dec(0, 23)]),
       Entity("inst_002", "University of Oxford",
           [publications |-> Num(15234), citations |-> Num(412567),
            collaborationRate |-> Dec(0, 72),
            fieldWeightedCitationImpact |-> Dec(3, 12),
            academicCorporateCollaboration |-> Dec(0, 18)]),
       Entity("inst_003", "ETH Zurich",
           [publications |-> Num(8923), citations |-> Num(198234),
            collaborationRate |-> Dec(0, 65),
            fieldWeightedCitationImpact |-> Dec(2, 56),
            academicCorporateCollaboration |-> Dec(0, 31)]) >>

FixtureJournals ==
    << Entity("jour_001", "Nature",
           [citesPerDoc |-> Dec(42, 30), sjr |-> Dec(14, 23),
            snip |-> Dec(8, 92), percentCited |-> Dec(94, 20)]),
       Entity("jour_002", "Science",
           [citesPerDoc |-> Dec(38, 70), sjr |-> Dec(13, 45),
            snip |-> Dec(7, 81), percentCited |-> Dec(92, 80)]),
       Entity("jour_003", "Cell",
           [citesPerDoc |-> Dec(35, 20), sjr |-> Dec(12, 89),
            snip |-> Dec(7, 23), percentCited |-> Dec(91, 50)]) >>

Point(year, value) == [year |-> Num(year), value |-> Num(value)]

FixtureTrends ==
    [auth_001 |-> << Point(2019, 12), Point(2020, 15), Point(2021, 18),
                     Point(2022, 22), Point(2023, 19) >>,
     inst_001 |-> << Point(2019, 11234), Point(2020, 11892), Point(2021, 12156),
                     Point(2022, 12389), Point(2023, 12456) >>,
     jour_001 |-> << Point(2019, 892), Point(2020, 923), Point(2021, 945),
                     Point(2022, 978), Point(2023, 1012) >>]

-----------------------------------------------------------------------------
(* Strings and sequences as JavaScript handles them; Array.prototype.filter *)
(* is SelectSeq.                                                          *)

\* The characters of the strings the model searches in and for.
Chars(t) ==
    CASE t = "Dr. Sarah Chen" ->
           <<"D", "r", ".", " ", "S", "a", "r", "a", "h", " ", "C", "h",
             "e", "n">>
      [] t = "Prof. James Anderson" ->
           <<"P", "r", "o", "f", ".", " ", "J", "a", "m", "e", "s", " ",
             "A", "n", "d", "e", "r", "s", "o", "n">>
      [] t = "Dr. Maria Rodriguez" ->
           <<"D", "r", ".", " ", "M", "a", "r", "i", "a", " ", "R", "o",
             "d", "r", "i", "g", "u", "e", "z">>
      [] t = "Massachusetts Institute of Technology" ->
           <<"M", "a", "s", "s", "a", "c", "h", "u", "s", "e", "t", "t",
             "s", " ", "I", "n", "s", "t", "i", "t", "u", "t", "e", " ",
             "o", "f", " ", "T", "e", "c", "h", "n", "o", "l", "o", "g", "y">>
      [] t = "University of Oxford" ->
           <<"U", "n", "i", "v", "e", "r", "s", "i", "t", "y", " ", "o",
             "f", " ", "O", "x", "f", "o", "r", "d">>
      [] t = "ETH Zurich" ->
           <<"E", "T", "H", " ", "Z", "u", "r", "i", "c", "h">>
      [] t = "Nature" -> <<"N", "a", "t", "u", "r", "e">>
      [] t = "Science" -> <<"S", "c", "i", "e", "n", "c", "e">>
      [] t = "Cell" -> <<"C", "e", "l", "l">>
      [] t = "" -> <<>>
      [] t = "chen" -> <<"c", "h", "e", "n">>
      [] t = "CHEN" -> <<"C", "H", "E", "N">>
      [] t = "Chen" -> <<"C", "h", "e", "n">>
      [] t = "e" -> <<"e">>
      [] t = "E" -> <<"E">>
      [] t = "Technology" ->
           <<"T", "e", "c", "h", "n", "o", "l", "o", "g", "y">>
      [] t = "xyz123notfound" ->
           <<"x", "y", "z", "1", "2", "3", "n", "o", "t", "f", "o", "u",
             "n", "d">>

LowerOf(c) ==
    CASE c = "A" -> "a" [] c = "B" -> "b" [] c = "C" -> "c" [] c = "D" -> "d"
      [] c = "E" -> "e" [] c = "F" -> "f" [] c = "G" -> "g" [] c = "H" -> "h"
      [] c = "I" -> "i" [] c = "J" -> "j" [] c = "K" -> "k" [] c = "L" -> "l"
      [] c = "M" -> "m" [] c = "N" -> "n" [] c = "O" -> "o" [] c = "P" -> "p"
      [] c = "Q" -> "q" [] c = "R" -> "r" [] c = "S" -> "s" [] c = "T" -> "t"
      [] c = "U" -> "u" [] c = "V" -> "v" [] c = "W" -> "w" [] c = "X" -> "x"
      [] c = "Y" -> "y" [] c = "Z" -> "z" [] OTHER -> c

\* the characters as they are, case kept
keepCase(cs) == cs

\* String.prototype.toLowerCase, on the characters
toLowerCase(cs) == [i \in 1..Len(cs) |-> LowerOf(cs[i])]

\* String.prototype.includes, on the characters
includes(cs, sub) ==
    \E i \in 0..(Len(cs) - Len(sub)) :
        \A j \in 1..Len(sub) : cs[i + j] = sub[j]

\* ToIntegerOrInfinity of a number: truncation toward zero
ToInteger(v) ==
    IF v.k # "number" THEN 0
    ELSE IF v.n >= 0 THEN v.n \div 100 ELSE -((-v.n) \div 100)

\* Array.prototype.slice(0, end); an undefined end is the length
Slice0(seq, end) ==
    LET len == Len(seq)
        e == ToInteger(end)
        final == IF end.k = "undefined" THEN len
                 ELSE IF e < 0 THEN (IF len + e > 0 THEN len + e ELSE 0)
                 ELSE (IF e < len THEN e ELSE len)
    IN  SubSeq(seq, 1, final)

\* Array.prototype.find(x => x.id === entityId): the index of the first
\* element whose id is entityId, 0 when find returns undefined
FindById(seq, entityId) ==
    LET hits == {i \in 1..Len(seq) :
                    entityId.k = "string" /\ seq[i].id = entityId.s}
    IN  IF hits = {} THEN 0
        ELSE CHOOSE i \in hits : \A j \in hits : i <= j

\* obj[key] on a plain object with the own properties of record own
Get(own, key) ==
    IF key \in DOMAIN own THEN own[key] ELSE InheritedProperty(key)

-----------------------------------------------------------------------------
(* What a query function hands back: a tagged value, or a throw *)

RNull == [t |-> "null", v |-> Null]
RUndefined == [t |-> "undefined", v |-> Undefined]
REntity(e) == [t |-> "entity", v |-> e]
REntities(es) == [t |-> "entities", v |-> es]
RMetrics(m) == [t |-> "metrics", v |-> m]
RComparison(c) == [t |-> "comparison", v |-> c]
RTrend(ps) == [t |-> "trend", v |-> ps]
RValue(v) == [t |-> "value", v |-> v]
Throw(e) == [t |-> "throw", v |-> e]

EntityTypes == {"author", "institution", "journal"}

\* the array a switch (entityType) selects
Collection(entityType) ==
    CASE entityType = "author" -> mockAuthors
      [] entityType = "institution" -> mockInstitutions
      [] entityType = "journal" -> mockJournals

-----------------------------------------------------------------------------
(* The six query functions of queries.ts.  params is the validated object: *)
(* a record of JavaScript values, Undefined for a property it lacks.       *)

\* a lookup that ignores entityType and searches all three collections
getEntityAnyCollection(params) ==
    LET all == mockAuthors \o mockInstitutions \o mockJournals
        i == FindById(all, params.entityId)
    IN  IF i = 0 THEN RNull ELSE REntity(all[i])

getEntity(params) ==
    LET entityType == params.entityType
        entityId == params.entityId
    IN  IF entityType.k = "string" /\ entityType.s \in EntityTypes
        THEN LET coll == Collection(entityType.s)
                 i == FindById(coll, entityId)
             IN  IF i = 0 THEN RNull ELSE REntity(coll[i])
        ELSE RUndefined

searchEntities(params) ==
    LET entityType == params.entityType
        query == params.query
        limit == params.limit
        queryLower == toLowerCase(Chars(query.s))
        Matches(e) == includes(toLowerCase(Chars(e.name)), queryLower)
    IN  IF query.k = "string" /\ entityType.k = "string"
           /\ entityType.s \in EntityTypes
        THEN REntities(Slice0(SelectSeq(Collection(entityType.s), Matches), limit))
        ELSE Throw("TypeError")

\* the metrics metricNames names, all of them when it is omitted
getMetricsNamed(params) ==
    LET entity == getEntity([entityType |-> params.entityType,
                             entityId |-> params.entityId])
        names == {params.metricNames.a[i].s : i \in 1..Len(params.metricNames.a)}
    IN  IF entity.t # "entity" THEN RNull
        ELSE IF params.metricNames.k = "undefined" THEN RMetrics(entity.v.metrics)
        ELSE RMetrics([m \in DOMAIN entity.v.metrics \cap names |->
                          entity.v.metrics[m]])

getMetrics(params) ==
    LET entity == getEntity([entityType |-> params.entityType,
                             entityId |-> params.entityId])
    IN  IF entity.t # "entity" THEN RNull ELSE RMetrics(entity.v.metrics)

\* the percentage taken relative to valueA
PercentOfA(valueA, valueB) ==
    IF valueA.k = "number" /\ valueA.n = 0 THEN [k |-> "number", num |-> 0, den |-> 1]
    ELSE IF valueA.k = "number" /\ valueB.k = "number"
    THEN [k |-> "number", num |-> (valueA.n - valueB.n) * 100, den |-> valueA.n]
    ELSE [k |-> "nan", num |-> 0, den |-> 1]

\* valueB !== 0 ? ((valueA - valueB) / valueB) * 100 : 0, as the exact
\* quotient num / den of two integers
Percent(valueA, valueB) ==
    IF valueB.k = "number" /\ valueB.n = 0 THEN [k |-> "number", num |-> 0, den |-> 1]
    ELSE IF valueA.k = "number" /\ valueB.k = "number"
    THEN [k |-> "number", num |-> (valueA.n - valueB.n) * 100, den |-> valueB.n]
    ELSE [k |-> "nan", num |-> 0, den |-> 1]

\* lines 92-116 of compareEntities: both entities were found
Comparison(entityA, entityB, metric) ==
    LET valueA == Get(entityA.metrics, metric.s)
        valueB == Get(entityB.metrics, metric.s)
    IN  IF valueA.k = "undefined" \/ valueB.k = "undefined" THEN RNull
        ELSE RComparison(
               [entityA |-> [id |-> entityA.id, name |-> entityA.name,
                             value |-> valueA],
                entityB |-> [id |-> entityB.id, name |-> entityB.name,
                             value |-> valueB],
                difference |-> Minus(valueA, valueB),
                percentDifference |-> Percent(valueA, valueB)])

\* if (!entityA && !entityB) return null: with one entity missing, reading
\* the metrics of null throws
compareEntitiesBothMissing(params) ==
    LET entityA == getEntity([entityType |-> params.entityType,
                              entityId |-> params.entityIdA])
        entityB == getEntity([entityType |-> params.entityType,
                              entityId |-> params.entityIdB])
    IN  IF entityA.t # "entity" /\ entityB.t # "entity" THEN RNull
        ELSE IF entityA.t # "entity" \/ entityB.t # "entity" THEN Throw("TypeError")
        ELSE Comparison(entityA.v, entityB.v, params.metric)

compareEntities(params) ==
    LET entityA == getEntity([entityType |-> params.entityType,
                              entityId |-> params.entityIdA])
        entityB == getEntity([entityType |-> params.entityType,
                              entityId |-> params.entityIdB])
    IN  IF entityA.t # "entity" \/ entityB.t # "entity" THEN RNull
        ELSE Comparison(entityA.v, entityB.v, params.metric)

\* a series store keyed by entity and metric, the stored series being
\* those of publications
getTrendOfMetric(params) ==
    LET entityId == params.entityId
        startYear == params.startYear
        endYear == params.endYear
        FromStart(point) == point.year.n >= startYear.n
        ToEnd(point) == point.year.n <= endYear.n
    IN  IF entityId.s \in DOMAIN mockTrends /\ params.metric.s = "publications"
        THEN LET trendData == mockTrends[entityId.s]
                 afterStart == IF Falsy(startYear) THEN trendData
                               ELSE SelectSeq(trendData, FromStart)
             IN  RTrend(IF Falsy(endYear) THEN afterStart
                        ELSE SelectSeq(afterStart, ToEnd))
        ELSE RNull

getTrend(params) ==
    LET entityId == params.entityId
        startYear == params.startYear
        endYear == params.endYear
        FromStart(point) == point.year.n >= startYear.n
        ToEnd(point) == point.year.n <= endYear.n
    IN  IF entityId.s \in DOMAIN mockTrends
        THEN LET trendData == mockTrends[entityId.s]
                 afterStart == IF Falsy(startYear) THEN trendData
                               ELSE SelectSeq(trendData, FromStart)
             IN  RTrend(IF Falsy(endYear) THEN afterStart
                        ELSE SelectSeq(afterStart, ToEnd))
        ELSE LET trendData == InheritedProperty(entityId.s)
             IN  IF Falsy(trendData) THEN RNull
                 ELSE IF ~Falsy(startYear) \/ ~Falsy(endYear)
                 THEN Throw("TypeError")
                 ELSE RValue(trendData)

\* metrics[metric] || 0
MetricOrZero(e, metric) ==
    LET v == Get(e.metrics, metric.s) IN IF Falsy(v) THEN Num(0) ELSE v

\* the comparator of entities.sort: valueB - valueA, a NaN counting as 0
SortCompare(a, b, metric) ==
    LET d == Minus(MetricOrZero(b, metric), MetricOrZero(a, metric))
    IN  IF d.k = "number" THEN d.n ELSE 0

\* an unstable insertion: an element goes before the first one the
\* comparator does not put strictly before it, so equal elements swap
RECURSIVE InsertBeforeEqual(_, _, _)
InsertBeforeEqual(sorted, e, metric) ==
    IF sorted = <<>> THEN <<e>>
    ELSE IF SortCompare(Head(sorted), e, metric) >= 0 THEN <<e>> \o sorted
    ELSE <<Head(sorted)>> \o InsertBeforeEqual(Tail(sorted), e, metric)

\* Array.prototype.sort is stable: an element goes before the first one the
\* comparator puts strictly after it
RECURSIVE InsertSorted(_, _, _)
InsertSorted(sorted, e, metric) ==
    IF sorted = <<>> THEN <<e>>
    ELSE IF SortCompare(Head(sorted), e, metric) > 0 THEN <<e>> \o sorted
    ELSE <<Head(sorted)>> \o InsertSorted(Tail(sorted), e, metric)

RECURSIVE SortByMetric(_, _)
SortByMetric(entities, metric) ==
    IF entities = <<>> THEN <<>>
    ELSE InsertSorted(SortByMetric(SubSeq(entities, 1, Len(entities) - 1), metric),
                      entities[Len(entities)], metric)

\* a ranking of the authors, whatever the entityType
getTopEntitiesOfAuthors(params) ==
    REntities(Slice0(SortByMetric(mockAuthors, params.metric), params.limit))

\* a ranking of the entities that have the metric only
getTopEntitiesHavingMetric(params) ==
    LET entityType == params.entityType
        metric == params.metric
        limit == params.limit
        Has(e) == metric.s \in DOMAIN e.metrics
    IN  IF entityType.k = "string" /\ entityType.s \in EntityTypes
        THEN REntities(Slice0(SortByMetric(SelectSeq(Collection(entityType.s), Has),
                                           metric), limit))
        ELSE Throw("TypeError")

getTopEntities(params) ==
    LET entityType == params.entityType
        metric == params.metric
        limit == params.limit
    IN  IF entityType.k = "string" /\ entityType.s \in EntityTypes
        THEN REntities(Slice0(SortByMetric(Collection(entityType.s), metric), limit))
        ELSE Throw("TypeError")

-----------------------------------------------------------------------------
(* The parameter schemas (zod) and the registry *)

\* One property of a z.object: its key, the innermost type, the enum's
\* options, whether .optional() wraps it and the value .default() gives.
Field(key, type, options, optional, default) ==
    [key |-> key, type |-> type, options |-> options,
     optional |-> optional, default |-> default]

EntityTypeField == Field("entityType", "enum", EntityTypes, FALSE, Undefined)

getEntitySchema ==
    << EntityTypeField,
       Field("entityId", "string", {}, FALSE, Undefined) >>

searchEntitiesSchema ==
    << EntityTypeField,
       Field("query", "string", {}, FALSE, Undefined),
       Field("limit", "number", {}, TRUE, Num(10)) >>

getMetricsSchema ==
    << EntityTypeField,
       Field("entityId", "string", {}, FALSE, Undefined),
       Field("metricNames", "array", {}, TRUE, Undefined) >>

compareEntitiesSchema ==
    << EntityTypeField,
       Field("entityIdA", "string", {}, FALSE, Undefined),
       Field("entityIdB", "string", {}, FALSE, Undefined),
       Field("metric", "string", {}, FALSE, Undefined) >>

getTrendSchema ==
    << Field("entityId", "string", {}, FALSE, Undefined),
       Field("metric", "string", {}, FALSE, Undefined),
       Field("startYear", "number", {}, TRUE, Undefined),
       Field("endYear", "number", {}, TRUE, Undefined) >>

getTopEntitiesSchema ==
    << EntityTypeField,
       Field("metric", "string", {}, FALSE, Undefined),
       Field("limit", "number", {}, TRUE, Num(10)) >>

Registry ==
    << [name |-> "getEntity", schema |-> getEntitySchema,
        description |-> "Retrieve a specific entity (author, institution, or journal) by its unique identifier"],
       [name |-> "searchEntities", schema |-> searchEntitiesSchema,
        description |-> "Search for entities by name or keywords"],
       [name |-> "getMetrics", schema |-> getMetricsSchema,
        description |-> "Get all metrics for a specific entity"],
       [name |-> "compareEntities", schema |-> compareEntitiesSchema,
        description |-> "Compare two entities on a specific metric and get the difference"],
       [name |-> "getTrend", schema |-> getTrendSchema,
        description |-> "Get trend data for an entity metric over a time period"],
       [name |-> "getTopEntities", schema |-> getTopEntitiesSchema,
        description |-> "Get the top-performing entities ranked by a specific metric"] >>

\* the function a registry entry holds
Execute(name, params) ==
    CASE name = "getEntity" -> getEntity(params)
      [] name = "searchEntities" -> searchEntities(params)
      [] name = "getMetrics" -> getMetrics(params)
      [] name = "compareEntities" -> compareEntities(params)
      [] name = "getTrend" -> getTrend(params)
      [] name = "getTopEntities" -> getTopEntities(params)

\* The property names a request body may carry: those of the six schemas
\* and one no schema knows.
Fields ==
    {"entityType", "entityId", "query", "limit", "metricNames",
     "entityIdA", "entityIdB", "metric", "startYear", "endYear", "extra"}

\* an object with the given properties and no others
Props(given) == [f \in Fields |-> IF f \in DOMAIN given THEN given[f] ELSE Undefined]

\* A JSON body: k is "object" with its properties, or "array", "null" or
\* "undefined" (no such value) with none.
Body(given) == [k |-> "object", props |-> Props(given)]
NonObject(kind) == [k |-> kind, props |-> Props(<<>>)]

Issue(code, key, at, expected, received) ==
    [code |-> code, path |-> key, at |-> at,
     expected |-> expected, received |-> received]

\* the issues of the elements of z.array(z.string()), by position from 0
RECURSIVE ElementIssues(_, _, _)
ElementIssues(key, elems, at) ==
    IF elems = <<>> THEN <<>>
    ELSE (IF Head(elems).k = "string" THEN <<>>
          ELSE <<Issue("invalid_type", key, at, "string", Head(elems).k)>>)
         \o ElementIssues(key, Tail(elems), at + 1)

\* no default is filled in: the input as it came
NotDefaulted(field, v) == v

\* ZodDefault: an undefined input becomes the default
Defaulted(field, v) ==
    IF v.k = "undefined" /\ field.default.k # "undefined" THEN field.default ELSE v

\* an enum checked as a string: any string passes
TypeIssuesEnumAsString(field, v) ==
    IF field.type \in {"string", "enum"}
    THEN (IF v.k = "string" THEN <<>>
          ELSE <<Issue("invalid_type", field.key, -1, "string", v.k)>>)
    ELSE IF field.type = "number"
    THEN (IF v.k = "number" THEN <<>>
          ELSE <<Issue("invalid_type", field.key, -1, "number", v.k)>>)
    ELSE IF v.k # "array"
    THEN <<Issue("invalid_type", field.key, -1, "array", v.k)>>
    ELSE ElementIssues(field.key, v.a, 0)

\* the issues of a value against the innermost type
TypeIssues(field, v) ==
    CASE field.type = "string" ->
           IF v.k = "string" THEN <<>>
           ELSE <<Issue("invalid_type", field.key, -1, "string", v.k)>>
      [] field.type = "number" ->
           IF v.k = "number" THEN <<>>
           ELSE <<Issue("invalid_type", field.key, -1, "number", v.k)>>
      [] field.type = "enum" ->
           IF v.k # "string"
           THEN <<Issue("invalid_type", field.key, -1, "enum", v.k)>>
           ELSE IF v.s \in field.options THEN <<>>
           ELSE <<Issue("invalid_enum_value", field.key, -1, "enum", v.s)>>
      [] field.type = "array" ->
           IF v.k # "array"
           THEN <<Issue("invalid_type", field.key, -1, "array", v.k)>>
           ELSE ElementIssues(field.key, v.a, 0)

\* every property treated as .optional()
FieldIssuesAllOptional(field, input) ==
    LET v == Defaulted(field, input)
    IN  IF v.k = "undefined" THEN <<>> ELSE TypeIssues(field, v)

\* the issues of one property: ZodDefault, then ZodOptional, then the type
FieldIssues(field, input) ==
    LET v == Defaulted(field, input)
    IN  IF v.k = "undefined" /\ field.optional THEN <<>>
        ELSE TypeIssues(field, v)

RECURSIVE ObjectIssues(_, _)
ObjectIssues(schema, props) ==
    IF schema = <<>> THEN <<>>
    ELSE FieldIssues(Head(schema), props[Head(schema).key])
         \o ObjectIssues(Tail(schema), props)

\* schema.parse(body): the issues of a ZodError, or the parsed object: the
\* schema's keys only, defaults filled in
Parse(schema, body) ==
    LET keys == {schema[i].key : i \in 1..Len(schema)}
        FieldOf(key) == schema[CHOOSE i \in 1..Len(schema) : schema[i].key = key]
        issues == IF body.k # "object"
                  THEN <<Issue("invalid_type", "", -1, "object", body.k)>>
                  ELSE ObjectIssues(schema, body.props)
    IN  [success |-> issues = <<>>,
         issues |-> issues,
         data |-> [f \in Fields |->
                      IF f \in keys /\ body.k = "object"
                      THEN Defaulted(FieldOf(f), body.props[f])
                      ELSE Undefined]]

-----------------------------------------------------------------------------
(* The handlers of index.ts *)

\* JSON.stringify of a value: a function or undefined is left out, NaN is null
JsonValue(v) ==
    IF v.k \in {"function", "undefined"} THEN Undefined
    ELSE IF v.k = "nan" THEN Null
    ELSE v

\* res.json({ result }): the result as the body carries it
Json(ret) ==
    CASE ret.t = "comparison" ->
           RComparison(
             [entityA |-> [ret.v.entityA EXCEPT !.value = JsonValue(@)],
              entityB |-> [ret.v.entityB EXCEPT !.value = JsonValue(@)],
              difference |-> JsonValue(ret.v.difference),
              percentDifference |->
                  IF ret.v.percentDifference.k = "nan"
                  THEN [k |-> "null", num |-> 0, den |-> 1]
                  ELSE ret.v.percentDifference])
      [] ret.t = "value" ->
           IF JsonValue(ret.v).k = "undefined" THEN RUndefined
           ELSE RValue(JsonValue(ret.v))
      [] OTHER -> ret

\* queryFunctions[functionName]: the position of the own property, 0 if none
OwnIndex(functionName) ==
    LET hits == {i \in 1..Len(queryFunctions) :
                    queryFunctions[i].name = functionName}
    IN  IF hits = {} THEN 0 ELSE CHOOSE i \in hits : TRUE

\* !queryConfig
NoQueryConfig(functionName) ==
    OwnIndex(functionName) = 0 /\ Falsy(InheritedProperty(functionName))

\* the try block of both handlers: validate, then execute.  A queryConfig
\* that is no registry entry has no schema, and reading schema.parse throws.
Attempt(functionName, body) ==
    LET i == OwnIndex(functionName)
        parsed == Parse(queryFunctions[i].schema, body)
    IN  IF i = 0 THEN [outcome |-> "throw", issues |-> <<>>, executed |-> <<>>,
                       result |-> Throw("TypeError")]
        ELSE IF ~parsed.success
        THEN [outcome |-> "zod", issues |-> parsed.issues, executed |-> <<>>,
              result |-> RUndefined]
        ELSE LET result == Execute(functionName, parsed.data)
                 call == <<[fn |-> functionName, params |-> parsed.data,
                            ret |-> result]>>
             IN  IF result.t = "throw"
                 THEN [outcome |-> "throw", issues |-> <<>>, executed |-> call,
                       result |-> result]
                 ELSE [outcome |-> "ok", issues |-> <<>>, executed |-> call,
                       result |-> result]

\* An HTTP response: the status and the JSON body's properties.  kind names
\* the body: "result", "error", "results", "functions", or "html" for the
\* page of Express's default error handler.
Reply(status, kind, error, details, result, results, functions) ==
    [status |-> status, kind |-> kind, error |-> error, details |-> details,
     result |-> result, results |-> results, functions |-> functions]

NoResponse == Reply(0, "none", <<>>, <<>>, RUndefined, <<>>, <<>>)

\* `Function '${functionName}' not found`
NotFoundText(functionName) == <<"Function '", functionName, "' not found">>

\* app.post('/api/query/:functionName')
QueryReply(functionName, body) ==
    IF NoQueryConfig(functionName)
    THEN Reply(404, "error", NotFoundText(functionName), <<>>, RUndefined, <<>>, <<>>)
    ELSE LET a == Attempt(functionName, body)
         IN  CASE a.outcome = "ok" ->
                    Reply(200, "result", <<>>, <<>>, Json(a.result), <<>>, <<>>)
               [] a.outcome = "zod" ->
                    Reply(400, "error", <<"Invalid parameters">>, a.issues,
                          RUndefined, <<>>, <<>>)
               [] a.outcome = "throw" ->
                    Reply(500, "error", <<"Internal server error">>, <<>>,
                          RUndefined, <<>>, <<>>)

QueryCalls(functionName, body) ==
    IF NoQueryConfig(functionName) THEN <<>>
    ELSE Attempt(functionName, body).executed


\* One element of a batch's queries array: k is the kind of the JSON value;
\* an object carries functionName and params (Undefined, "undefined" when
\* it lacks them).
Query(functionName, params) ==
    [k |-> "object", functionName |-> functionName, params |-> params]
NonObjectQuery(kind) ==
    [k |-> kind, functionName |-> Undefined, params |-> NonObject("undefined")]

\* a value used as a property key or in a template literal
ToPropertyKey(v) == IF v.k = "string" THEN v.s ELSE v.k

\* what the callback of queries.map returns for one query
Outcome(hasSuccess, success, error, details, result) ==
    [hasSuccess |-> hasSuccess, success |-> success, error |-> error,
     details |-> details, result |-> result]

BatchItem(query) ==
    LET functionName == ToPropertyKey(query.functionName)
        a == Attempt(functionName, query.params)
    IN  IF NoQueryConfig(functionName)
        THEN Outcome(FALSE, FALSE, NotFoundText(functionName), <<>>, RUndefined)
        ELSE CASE a.outcome = "ok" ->
                    Outcome(TRUE, TRUE, <<>>, <<>>, Json(a.result))
               [] a.outcome = "zod" ->
                    Outcome(TRUE, FALSE, <<"Invalid parameters">>, a.issues, RUndefined)
               [] a.outcome = "throw" ->
                    Outcome(TRUE, FALSE, <<"Execution failed">>, <<>>, RUndefined)

BatchItemCalls(query) ==
    IF NoQueryConfig(ToPropertyKey(query.functionName)) THEN <<>>
    ELSE Attempt(ToPropertyKey(query.functionName), query.params).executed

\* const { functionName, params } = query throws on null, outside the try
Destructurable(query) == query.k # "null"

\* the queries before the first one the callback throws on
Reached(items) ==
    LET bad == {i \in 1..Len(items) : ~Destructurable(items[i])}
    IN  IF bad = {} THEN items
        ELSE SubSeq(items, 1, (CHOOSE i \in bad : \A j \in bad : i <= j) - 1)

RECURSIVE Flatten(_)
Flatten(seqs) == IF seqs = <<>> THEN <<>> ELSE Head(seqs) \o Flatten(Tail(seqs))

\* an all-or-nothing batch: when an item fails, every item that succeeded
\* is reported as failed too
BatchReplyAtomic(queries) ==
    IF ~queries.isArray
    THEN Reply(400, "error", <<"queries must be an array">>, <<>>, RUndefined, <<>>, <<>>)
    ELSE IF \E i \in 1..Len(queries.items) : ~Destructurable(queries.items[i])
    THEN Reply(500, "html", <<"TypeError">>, <<>>, RUndefined, <<>>, <<>>)
    ELSE LET outcomes == [i \in 1..Len(queries.items) |-> BatchItem(queries.items[i])]
             failed == \E i \in 1..Len(outcomes) : ~outcomes[i].success
         IN  Reply(200, "results", <<>>, <<>>, RUndefined,
                   [i \in 1..Len(outcomes) |->
                       IF failed /\ outcomes[i].success
                       THEN Outcome(TRUE, FALSE, <<"Execution failed">>, <<>>, RUndefined)
                       ELSE outcomes[i]],
                   <<>>)

\* app.post('/api/batch'); queries is [isArray, items]
BatchReply(queries) ==
    IF ~queries.isArray
    THEN Reply(400, "error", <<"queries must be an array">>, <<>>, RUndefined, <<>>, <<>>)
    ELSE IF \E i \in 1..Len(queries.items) : ~Destructurable(queries.items[i])
    THEN Reply(500, "html", <<"TypeError">>, <<>>, RUndefined, <<>>, <<>>)
    ELSE Reply(200, "results", <<>>, <<>>, RUndefined,
               [i \in 1..Len(queries.items) |-> BatchItem(queries.items[i])], <<>>)

BatchCalls(queries) ==
    IF ~queries.isArray THEN <<>>
    ELSE LET reached == Reached(queries.items)
         IN  Flatten([i \in 1..Len(reached) |-> BatchItemCalls(reached[i])])

\* only an .optional() without a default counts as optional
isOptionalWithoutDefault(field) == field.optional /\ field.default.k = "undefined"

\* value.isOptional(): whether the property's schema accepts undefined
isOptional(field) == FieldIssues(field, Undefined) = <<>>

\* zodToJsonSchema of one property and of a z.object
PropertySchema(field) ==
    [key |-> field.key,
     type |-> IF field.type = "enum" THEN "string" ELSE field.type,
     enum |-> field.options,
     items |-> IF field.type = "array" THEN "string" ELSE "",
     default |-> field.default]

RequiredOf(field) == ~isOptional(field)

zodToJsonSchema(schema) ==
    [type |-> "object",
     properties |-> [i \in 1..Len(schema) |-> PropertySchema(schema[i])],
     required |-> LET req == SelectSeq(schema, RequiredOf)
                  IN  [i \in 1..Len(req) |-> req[i].key]]

\* the entries listed from the last registry key to the first
FunctionsReplyReversed ==
    Reply(200, "functions", <<>>, <<>>, RUndefined, <<>>,
          [i \in 1..Len(queryFunctions) |->
              LET config == queryFunctions[Len(queryFunctions) + 1 - i]
              IN  [name |-> config.name,
                   description |-> config.description,
                   parameters |-> zodToJsonSchema(config.schema)]])

\* app.get('/api/functions')
FunctionsReply ==
    Reply(200, "functions", <<>>, <<>>, RUndefined, <<>>,
          [i \in 1..Len(queryFunctions) |->
              [name |-> queryFunctions[i].name,
               description |-> queryFunctions[i].description,
               parameters |-> zodToJsonSchema(queryFunctions[i].schema)]])

-----------------------------------------------------------------------------
(* The requests a client sends *)

TypeValues ==
    {Undefined, Str("author"), Str("institution"), Str("journal"),
     Str("paper"), Num(1)}

IdValues ==
    {Undefined, Str("auth_001"), Str("auth_002"), Str("inst_001"),
     Str("nonexistent"), Str("toString"), Num(7)}

CompareIdValues ==
    {Undefined, Str("auth_001"), Str("auth_002"), Str("inst_001"),
     Str("nonexistent"), Num(7)}

MetricValues ==
    {Undefined, Str("citations"), Str("hIndex"), Str("publications"),
     Str("sjr"), Str("fieldWeightedCitationImpact"), Str("nonexistentMetric"),
     Str("toString"), Str("outputsInTopCitationPercentiles"), Null}

TrendMetricValues == {Undefined, Str("publications"), Str("citations"), Num(1)}

QueryValues ==
    {Undefined, Str(""), Str("chen"), Str("CHEN"), Str("Chen"), Str("e"),
     Str("E"), Str("Technology"), Str("xyz123notfound"), Num(1)}

LimitValues ==
    {Undefined, Num(0), Num(1), Num(2), Num(3), Num(10), Num(-1), Dec(1, 50),
     Str("2"), Null}

YearValues ==
    {Undefined, Num(2020), Num(2021), Num(2022), Num(0), Num(2030),
     Str("2020"), Null}

MetricNamesValues ==
    {Undefined, Arr(<<>>), Arr(<<Str("citations")>>),
     Arr(<<Str("citations"), Num(1)>>), Str("citations"), Null}

\* the bodies sent to a registered function: every choice of its properties
BodiesFor(functionName) ==
    CASE functionName = "getEntity" ->
           {Body([entityType |-> t, entityId |-> i]) :
               t \in TypeValues, i \in IdValues}
      [] functionName = "searchEntities" ->
           {Body([entityType |-> t, query |-> q, limit |-> l]) :
               t \in TypeValues, q \in QueryValues, l \in LimitValues}
      [] functionName = "getMetrics" ->
           {Body([entityType |-> t, entityId |-> i, metricNames |-> m]) :
               t \in TypeValues, i \in IdValues, m \in MetricNamesValues}
      [] functionName = "compareEntities" ->
           {Body([entityType |-> t, entityIdA |-> a, entityIdB |-> b, metric |-> m]) :
               t \in TypeValues, a \in CompareIdValues, b \in CompareIdValues,
               m \in MetricValues}
      [] functionName = "getTrend" ->
           {Body([entityId |-> i, metric |-> m, startYear |-> s, endYear |-> e]) :
               i \in IdValues, m \in TrendMetricValues, s \in YearValues,
               e \in YearValues}
      [] functionName = "getTopEntities" ->
           {Body([entityType |-> t, metric |-> m, limit |-> l]) :
               t \in TypeValues, m \in MetricValues, l \in LimitValues}

\* bodies sent to any name: empty, a valid getEntity call, one with a
\* property no schema knows, and a JSON array
CommonBodies ==
    {Body(<<>>), Body([entityType |-> Str("author"), entityId |-> Str("auth_001")]),
     Body([entityType |-> Str("author"), entityId |-> Str("auth_001"),
           extra |-> Num(1)]),
     NonObject("array")}

RegisteredNames == {Registry[i].name : i \in 1..Len(Registry)}

OtherNames ==
    {"nonExistentFunction", "getentity", "toString", "constructor",
     "hasOwnProperty", "__proto__"}

\* the elements a batch is built from
BatchQueries ==
    {Query(Str("getEntity"), Body([entityType |-> Str("author"),
                                   entityId |-> Str("auth_001")])),
     Query(Str("getEntity"), Body([entityType |-> Str("author"),
                                   entityId |-> Str("nonexistent")])),
     Query(Str("getTopEntities"), Body([entityType |-> Str("author"),
                                        metric |-> Str("citations"),
                                        limit |-> Num(1)])),
     Query(Str("compareEntities"), Body([entityType |-> Str("author"),
                                         entityIdA |-> Str("auth_001")])),
     Query(Str("getTrend"), Body([entityId |-> Str("auth_002"),
                                  metric |-> Str("publications")])),
     Query(Str("getTrend"), Body([entityId |-> Str("constructor"),
                                  metric |-> Str("publications"),
                                  startYear |-> Num(2020)])),
     Query(Str("getEntity"), NonObject("undefined")),
     Query(Str("getEntity"), Body([entityType |-> Str("paper"),
                                   entityId |-> Str("auth_001")])),
     Query(Str("nonExistentFunction"), Body(<<>>)),
     Query(Str("toString"), Body(<<>>)),
     Query(Undefined, NonObject("undefined")),
     NonObjectQuery("number"),
     NonObjectQuery("null")}

MaxBatch == 2

RECURSIVE SeqsUpTo(_, _)
SeqsUpTo(S, n) ==
    IF n = 0 THEN {<<>>}
    ELSE LET shorter == SeqsUpTo(S, n - 1)
         IN  shorter \cup {Append(q, x) : q \in shorter, x \in S}

QueriesValues ==
    {[isArray |-> TRUE, items |-> items] : items \in SeqsUpTo(BatchQueries, MaxBatch)}
    \cup {[isArray |-> FALSE, items |-> <<>>]}

-----------------------------------------------------------------------------
(* What executing the query functions leaves in the dataset *)

\* entities.sort(...) on the array itself: the stored array is the sorted one
SortedInPlace(stored, sorted) == sorted

\* entities = [...mockAuthors]; entities.sort(...): the sort works on a
\* copy, the stored array stays as it is
StoredAfterSort(stored, sorted) == stored

\* a filter that removes the other points from the stored series itself
FilteredInPlace(stored, filtered) == filtered

\* let filtered = trendData; filtered = filtered.filter(...): filter builds
\* a new array, the stored series stays as it is
StoredAfterFilter(stored, filtered) == stored

\* the trend series after the executed calls, in their order
RECURSIVE TrendsAfter(_, _)
TrendsAfter(stored, executed) ==
    IF executed = <<>> THEN stored
    ELSE LET call == Head(executed)
             after == IF call.fn = "getTrend" /\ call.ret.t = "trend"
                      THEN [stored EXCEPT ![call.params.entityId.s] =
                               StoredAfterFilter(@, call.ret.v)]
                      ELSE stored
         IN  TrendsAfter(after, Tail(executed))

\* a stored collection after the executed calls, in their order: only
\* getTopEntities sorts an array, and slice builds a new one
RECURSIVE CollectionAfter(_, _, _)
CollectionAfter(entityType, stored, executed) ==
    IF executed = <<>> THEN stored
    ELSE LET call == Head(executed)
             after == IF /\ call.fn = "getTopEntities"
                         /\ call.params.entityType = Str(entityType)
                      THEN StoredAfterSort(stored,
                                           SortByMetric(stored, call.params.metric))
                      ELSE stored
         IN  CollectionAfter(entityType, after, Tail(executed))

\* the dataset and the registry once the executed calls have run; no
\* handler assigns to queryFunctions
Served(executed) ==
    /\ mockAuthors' = CollectionAfter("author", mockAuthors, executed)
    /\ mockInstitutions' = CollectionAfter("institution", mockInstitutions, executed)
    /\ mockJournals' = CollectionAfter("journal", mockJournals, executed)
    /\ mockTrends' = TrendsAfter(mockTrends, executed)
    /\ queryFunctions' = queryFunctions

-----------------------------------------------------------------------------
(* The server *)

Request(route, functionName, body, queries) ==
    [route |-> route, functionName |-> functionName, body |-> body,
     queries |-> queries]

NoRequest == Request("none", "", Body(<<>>), [isArray |-> FALSE, items |-> <<>>])

\* what a client keeps of an exchange
Exchange(noted, req, res) == [noted |-> noted, request |-> req, response |-> res]

NoExchange == Exchange(FALSE, NoRequest, NoResponse)

Init ==
    /\ mockAuthors = FixtureAuthors
    /\ mockInstitutions = FixtureInstitutions
    /\ mockJournals = FixtureJournals
    /\ mockTrends = FixtureTrends
    /\ queryFunctions = Registry
    /\ request = NoRequest
    /\ response = NoResponse
    /\ calls = <<>>
    /\ earlier = NoExchange

\* the server waits for a request
Listening == response.kind = "none"

\* GET /api/functions
Introspect ==
    /\ Listening
    /\ request' = Request("functions", "", Body(<<>>), NoRequest.queries)
    /\ response' = FunctionsReply
    /\ calls' = <<>>
    /\ UNCHANGED <<dataset, queryFunctions, earlier>>

\* the bodies the model sends to POST /api/query/:functionName
BodiesSentTo(functionName) ==
    IF functionName \in RegisteredNames
    THEN BodiesFor(functionName) \cup CommonBodies
    ELSE CommonBodies

\* POST /api/query/:functionName with a JSON body
Invoke ==
    /\ Listening
    /\ \E functionName \in RegisteredNames \cup OtherNames :
          \E body \in BodiesSentTo(functionName) :
             /\ request' = Request("query", functionName, body, NoRequest.queries)
             /\ response' = QueryReply(functionName, body)
             /\ calls' = QueryCalls(functionName, body)
             /\ Served(QueryCalls(functionName, body))
    /\ UNCHANGED earlier

\* POST /api/batch with body { queries }
InvokeBatch ==
    /\ Listening
    /\ \E queries \in QueriesValues :
          /\ request' = Request("batch", "", Body(<<>>), queries)
          /\ response' = BatchReply(queries)
          /\ calls' = BatchCalls(queries)
          /\ Served(BatchCalls(queries))
    /\ UNCHANGED earlier

\* the response has gone out; the server waits for the next request
EndResponse ==
    /\ ~Listening
    /\ request' = NoRequest
    /\ response' = NoResponse
    /\ calls' = <<>>
    /\ UNCHANGED <<dataset, queryFunctions, earlier>>

Next ==
    \/ Introspect
    \/ Invoke
    \/ InvokeBatch
    \/ EndResponse

Spec == Init /\ [][Next]_vars

\* The query functions read whatever the data module exports.  To exercise
\* them on metric values the fixture lacks (a zero, two equal values), the
\* authors' citations are drawn from CitationValues.
CitationValues == {Num(0), Num(4823), Num(8912)}

WithCitations(values) ==
    [i \in 1..Len(FixtureAuthors) |->
        [FixtureAuthors[i] EXCEPT !.metrics.citations = values[i]]]

InitData ==
    /\ mockAuthors \in {WithCitations(values) :
                            values \in [1..Len(FixtureAuthors) -> CitationValues]}
    /\ mockInstitutions = FixtureInstitutions
    /\ mockJournals = FixtureJournals
    /\ mockTrends = FixtureTrends
    /\ queryFunctions = Registry
    /\ request = NoRequest
    /\ response = NoResponse
    /\ calls = <<>>
    /\ earlier = NoExchange

SpecData == InitData /\ [][Next]_vars

\* To exercise the default limit of 10 and entities that lack a metric, a
\* journal collection of more than ten entities: the fixture's journals
\* repeated under further ids, every second further one without an sjr.
JournalIds ==
    <<"jour_001", "jour_002", "jour_003", "jour_004", "jour_005", "jour_006",
      "jour_007", "jour_008", "jour_009", "jour_010", "jour_011">>

ManyJournals ==
    [i \in 1..Len(JournalIds) |->
        LET journal == FixtureJournals[((i - 1) % Len(FixtureJournals)) + 1]
        IN  Entity(JournalIds[i], journal.name,
                   IF i > Len(FixtureJournals) /\ i % 2 = 0
                   THEN [citesPerDoc |-> journal.metrics.citesPerDoc,
                         snip |-> journal.metrics.snip,
                         percentCited |-> journal.metrics.percentCited]
                   ELSE journal.metrics)]

InitLarge ==
    /\ mockAuthors = FixtureAuthors
    /\ mockInstitutions = FixtureInstitutions
    /\ mockJournals = ManyJournals
    /\ mockTrends = FixtureTrends
    /\ queryFunctions = Registry
    /\ request = NoRequest
    /\ response = NoResponse
    /\ calls = <<>>
    /\ earlier = NoExchange

SpecLarge == InitLarge /\ [][Next]_vars

\* To compare the answers the server gives to one request at two points of
\* a request history, a client notes an exchange and keeps it while it
\* sends further requests.  It notes the requests to searchEntities and
\* getTopEntities about the authors without a limit, and those to getTrend
\* about auth_001 without a year.
Tracked(req) ==
    /\ req.route = "query"
    /\ req.body.k = "object"
    /\ \/ /\ req.functionName \in {"searchEntities", "getTopEntities"}
          /\ req.body.props.entityType = Str("author")
          /\ req.body.props.limit.k = "undefined"
       \/ /\ req.functionName = "getTrend"
          /\ req.body.props.entityId = Str("auth_001")
          /\ req.body.props.startYear.k = "undefined"
          /\ req.body.props.endYear.k = "undefined"

\* the client notes the exchange that has just completed
Note ==
    /\ ~Listening
    /\ Tracked(request)
    /\ earlier # Exchange(TRUE, request, response)
    /\ earlier' = Exchange(TRUE, request, response)
    /\ UNCHANGED <<dataset, queryFunctions, request, response, calls>>

NextHistory ==
    \/ Introspect
    \/ Invoke
    \/ InvokeBatch
    \/ EndResponse
    \/ Note

SpecHistory == Init /\ [][NextHistory]_vars

-----------------------------------------------------------------------------
(* Claims about the invocation boundary *)

\* the six names the registry is documented to hold
SixNames ==
    {"getEntity", "searchEntities", "getMetrics", "compareEntities",
     "getTrend", "getTopEntities"}

HandledQuery == request.route = "query"
HandledBatch == request.route = "batch" /\ request.queries.isArray

\* C1: a single Invoke of a name that is none of the six registered names
\* answers 404 with the error text carrying the name: never InvalidParameters,
\* never a generic execution failure, never a success envelope.
C1_UnknownNameIsNotFound ==
    (HandledQuery /\ request.functionName \notin SixNames)
        => /\ response.status = 404
           /\ response.kind = "error"
           /\ response.error = <<"Function '", request.functionName, "' not found">>

\* The properties of a body that break the schema of functionName, in the
\* claim's terms: a required one missing, one of the wrong type, an
\* entityType outside the three.
NotRequired == {"limit", "metricNames", "startYear", "endYear"}

WrongType(type, v) ==
    CASE type \in {"string", "enum"} -> v.k # "string"
      [] type = "number" -> v.k # "number"
      [] type = "array" ->
           v.k # "array" \/ \E i \in 1..Len(v.a) : v.a[i].k # "string"

SchemaOf(functionName) ==
    Registry[CHOOSE i \in 1..Len(Registry) : Registry[i].name = functionName].schema

ViolatingKeys(functionName, body) ==
    LET schema == SchemaOf(functionName)
    IN  {schema[i].key : i \in
            {j \in 1..Len(schema) :
                LET v == body.props[schema[j].key]
                IN  \/ v.k = "undefined" /\ schema[j].key \notin NotRequired
                    \/ v.k # "undefined" /\ WrongType(schema[j].type, v)
                    \/ /\ schema[j].key = "entityType"
                       /\ v.k = "string"
                       /\ v.s \notin {"author", "institution", "journal"}}}

Violates(functionName, body) ==
    body.k # "object" \/ ViolatingKeys(functionName, body) # {}

\* C2: a single Invoke of a registered function with a body that violates
\* its schema answers 400 "Invalid parameters" with an issue for every
\* violating property, and executes no query function.
C2_InvalidParamsRejected ==
    (HandledQuery /\ request.functionName \in SixNames
       /\ Violates(request.functionName, request.body))
        => /\ response.status = 400
           /\ response.error = <<"Invalid parameters">>
           /\ response.details # <<>>
           /\ request.body.k = "object"
                 => \A key \in ViolatingKeys(request.functionName, request.body) :
                       \E i \in 1..Len(response.details) :
                          response.details[i].path = key
           /\ calls = <<>>

\* the documented demo: compareEntities without entityIdB and metric
C2_Witness ==
    /\ HandledQuery
    /\ request.functionName = "compareEntities"
    /\ request.body = Body([entityType |-> Str("author"),
                            entityIdA |-> Str("auth_001")])
    /\ response.status = 400
    /\ \E i \in 1..Len(response.details) :
          /\ response.details[i].path = "entityIdB"
          /\ response.details[i].code = "invalid_type"
          /\ response.details[i].received = "undefined"
    /\ calls = <<>>

\* the elements of a sequence
Range(seq) == {seq[i] : i \in 1..Len(seq)}

\* the stored collection of a type, read off the state
Stored(type) ==
    IF type = "author" THEN mockAuthors
    ELSE IF type = "institution" THEN mockInstitutions
    ELSE mockJournals

HasId(type, id) == \E e \in Range(Stored(type)) : e.id = id

\* a schema-valid request whose query has nothing to find
FindsNothing(functionName, props) ==
    CASE functionName \in {"getEntity", "getMetrics"} ->
           ~HasId(props.entityType.s, props.entityId.s)
      [] functionName = "compareEntities" ->
           \/ ~HasId(props.entityType.s, props.entityIdA.s)
           \/ ~HasId(props.entityType.s, props.entityIdB.s)
           \/ \E e \in Range(Stored(props.entityType.s)) :
                 /\ e.id \in {props.entityIdA.s, props.entityIdB.s}
                 /\ props.metric.s \notin DOMAIN e.metrics
      [] functionName = "getTrend" ->
           props.entityId.s \notin DOMAIN mockTrends
      [] functionName = "searchEntities" ->
           \A e \in Range(Stored(props.entityType.s)) :
               ~includes(toLowerCase(Chars(e.name)),
                         toLowerCase(Chars(props.query.s)))
      [] OTHER -> FALSE

\* C3: a schema-valid Invoke whose query finds nothing answers with the
\* success envelope carrying null or an empty list.
C3_NotFoundIsSuccess ==
    (HandledQuery /\ request.functionName \in SixNames
       /\ ~Violates(request.functionName, request.body)
       /\ FindsNothing(request.functionName, request.body.props))
        => /\ response.status = 200
           /\ response.kind = "result"
           /\ \/ response.result.t = "null"
              \/ response.result.t = "entities" /\ response.result.v = <<>>

\* one query's outcome in a reply: none when the reply carries no results
OutcomeIn(reply, i) ==
    IF reply.kind = "results" THEN <<reply.results[i]>> ELSE <<>>

Alone(query) == [isArray |-> TRUE, items |-> <<query>>]

\* C4: in a batch every item is attempted, and its outcome is the one the
\* same item gets in a batch of its own.
C4_ItemsIndependent ==
    HandledBatch
        => \A i \in 1..Len(request.queries.items) :
              OutcomeIn(response, i)
                  = OutcomeIn(BatchReply(Alone(request.queries.items[i])), 1)

\* C5: the results of a batch of n items are n outcomes, the i-th that of
\* the i-th item.
C5_ResultsInInputOrder ==
    HandledBatch
        => /\ response.kind = "results"
           /\ Len(response.results) = Len(request.queries.items)
           /\ \A i \in 1..Len(request.queries.items) :
                 response.results[i] = BatchItem(request.queries.items[i])

\* C6: every element of a batch's results carries a success flag: true
\* with the result, false with error detail.
C6_EveryOutcomeTagged ==
    (HandledBatch /\ response.kind = "results")
        => \A i \in 1..Len(response.results) :
              /\ response.results[i].hasSuccess
              /\ ~response.results[i].success => response.results[i].error # <<>>

-----------------------------------------------------------------------------
(* Claims about the query functions, on the calls the handlers make *)

Called(name) == {c \in Range(calls) : c.fn = name}

\* C7: getEntity returns the stored entity of the selected collection whose
\* id is entityId, null when that collection has none (also when another
\* collection has the id), and does not throw.
C7_GetEntityExact ==
    \A c \in Called("getEntity") :
        LET type == c.params.entityType.s
            id == c.params.entityId.s
        IN  IF HasId(type, id)
            THEN /\ c.ret.t = "entity"
                 /\ c.ret.v \in Range(Stored(type))
                 /\ c.ret.v.id = id
            ELSE c.ret.t = "null"

\* an institution's id asked for among the authors
C7_Witness ==
    \E c \in Called("getEntity") :
        /\ c.params.entityType.s = "author"
        /\ c.params.entityId.s = "inst_001"
        /\ HasId("institution", "inst_001")
        /\ c.ret.t = "null"

\* C8: compareEntities returns null when entityIdA or entityIdB is no id of
\* the selected collection, whatever the metric.
C8_CompareNeedsBothEntities ==
    \A c \in Called("compareEntities") :
        (\/ ~HasId(c.params.entityType.s, c.params.entityIdA.s)
         \/ ~HasId(c.params.entityType.s, c.params.entityIdB.s))
            => c.ret.t = "null"

C8_Witness ==
    \E c \in Called("compareEntities") :
        /\ c.params.entityType.s = "author"
        /\ c.params.entityIdA.s = "nonexistent"
        /\ c.params.entityIdB.s = "auth_001"
        /\ c.params.metric.s = "citations"
        /\ c.ret.t = "null"

\* the stored entity with an id
EntityOf(type, id) == CHOOSE e \in Range(Stored(type)) : e.id = id

\* C9: for two existing entities, compareEntities returns null when metric
\* is not a key of the metrics of A or not a key of the metrics of B.
C9_CompareNeedsMetricOnBoth ==
    \A c \in Called("compareEntities") :
        LET type == c.params.entityType.s
            a == c.params.entityIdA.s
            b == c.params.entityIdB.s
        IN  (/\ HasId(type, a)
             /\ HasId(type, b)
             /\ \/ c.params.metric.s \notin DOMAIN EntityOf(type, a).metrics
                \/ c.params.metric.s \notin DOMAIN EntityOf(type, b).metrics)
                => c.ret.t = "null"

\* the value an entity's metrics object gives for a name
ValueOf(e, metric) ==
    IF metric \in DOMAIN e.metrics THEN e.metrics[metric]
    ELSE InheritedProperty(metric)

Carries(side, e, metric) ==
    /\ side.id = e.id
    /\ side.name = e.name
    /\ side.value = ValueOf(e, metric)

\* C10: a comparison carries in entityA the id, name and metric value of
\* the entity asked for as entityIdA, in entityB those of entityIdB, and
\* difference is entityA.value - entityB.value (NaN when a value is no
\* number).
C10_ComparisonOriented ==
    \A c \in Called("compareEntities") :
        c.ret.t = "comparison"
            => LET type == c.params.entityType.s
                   r == c.ret.v
               IN  /\ HasId(type, c.params.entityIdA.s)
                   /\ HasId(type, c.params.entityIdB.s)
                   /\ Carries(r.entityA, EntityOf(type, c.params.entityIdA.s),
                              c.params.metric.s)
                   /\ Carries(r.entityB, EntityOf(type, c.params.entityIdB.s),
                              c.params.metric.s)
                   /\ IF r.entityA.value.k = "number" /\ r.entityB.value.k = "number"
                      THEN /\ r.difference.k = "number"
                           /\ r.difference.n = r.entityA.value.n - r.entityB.value.n
                      ELSE r.difference.k = "nan"

\* auth_002 against auth_001 on citations: 8912, 4823 and 4089
C10_Witness ==
    \E c \in Called("compareEntities") :
        /\ c.params.entityType.s = "author"
        /\ c.params.entityIdA.s = "auth_002"
        /\ c.params.entityIdB.s = "auth_001"
        /\ c.params.metric.s = "citations"
        /\ c.ret.t = "comparison"
        /\ c.ret.v.entityA = [id |-> "auth_002", name |-> "Prof. James Anderson",
                              value |-> Num(8912)]
        /\ c.ret.v.entityB = [id |-> "auth_001", name |-> "Dr. Sarah Chen",
                              value |-> Num(4823)]
        /\ c.ret.v.difference = Num(4089)

\* the same comparison asked the other way round
Swapped(params) ==
    [params EXCEPT !.entityIdA = params.entityIdB,
                   !.entityIdB = params.entityIdA]

\* -d of JavaScript: the negation of NaN is NaN
Negated(d) == IF d.k = "number" THEN Fixed(-d.n) ELSE d

\* C11: whenever compareEntities(A, B, metric) returns a comparison,
\* compareEntities(B, A, metric) returns one too, and its difference is the
\* negation of the first one's difference.
C11_DifferenceAntisymmetric ==
    \A c \in Called("compareEntities") :
        c.ret.t = "comparison"
            => LET back == compareEntities(Swapped(c.params))
               IN  /\ back.t = "comparison"
                   /\ back.v.difference = Negated(c.ret.v.difference)

\* auth_002 against auth_001 on citations is 4089, auth_001 against
\* auth_002 is -4089
C11_Witness ==
    \E c \in Called("compareEntities") :
        /\ c.params.entityType.s = "author"
        /\ c.params.entityIdA.s = "auth_002"
        /\ c.params.entityIdB.s = "auth_001"
        /\ c.params.metric.s = "citations"
        /\ c.ret.t = "comparison"
        /\ c.ret.v.difference = Num(4089)
        /\ compareEntities(Swapped(c.params)).v.difference = Num(-4089)

\* C12: in every comparison, percentDifference is 0 when entity B's value
\* is 0, whatever A's value, and otherwise the quotient
\* ((valueA - valueB) * 100) / valueB, relative to B (NaN when a value is no
\* number).
C12_PercentRelativeToB ==
    \A c \in Called("compareEntities") :
        c.ret.t = "comparison"
            => LET a == c.ret.v.entityA.value
                   b == c.ret.v.entityB.value
                   p == c.ret.v.percentDifference
               IN  IF b.k = "number" /\ b.n = 0
                   THEN p.k = "number" /\ p.num = 0
                   ELSE IF a.k = "number" /\ b.k = "number"
                   THEN /\ p.k = "number"
                        /\ p.num = (a.n - b.n) * 100
                        /\ p.den = b.n
                   ELSE p.k = "nan"

\* A with 4823 citations against B with none: difference 4823, 0 percent
C12_Witness ==
    \E c \in Called("compareEntities") :
        /\ c.params.metric.s = "citations"
        /\ c.ret.t = "comparison"
        /\ c.ret.v.entityA.value = Num(4823)
        /\ c.ret.v.entityB.value = Num(0)
        /\ c.ret.v.difference = Num(4823)
        /\ c.ret.v.percentDifference.k = "number"
        /\ c.ret.v.percentDifference.num = 0

\* C13: for an entityId with a stored series, getTrend returns exactly the
\* stored points with year >= startYear (when startYear is given) and
\* year <= endYear (when endYear is given), in stored order; startYear and
\* endYear are each omitted or any integer.
C13_TrendWithinBounds ==
    \A c \in Called("getTrend") :
        c.params.entityId.s \in DOMAIN mockTrends
            => LET startYear == c.params.startYear
                   endYear == c.params.endYear
                   Within(point) ==
                       /\ startYear.k = "number" => point.year.n >= startYear.n
                       /\ endYear.k = "number" => point.year.n <= endYear.n
               IN  /\ c.ret.t = "trend"
                   /\ c.ret.v = SelectSeq(mockTrends[c.params.entityId.s], Within)

\* C14: for an entityId the dataset holds no trend series for, getTrend
\* returns null for every metric, startYear and endYear, and does not throw.
C14_NoSeriesIsNull ==
    \A c \in Called("getTrend") :
        c.params.entityId.s \notin DOMAIN mockTrends => c.ret.t = "null"

\* where the stored collection of a type keeps the entity with an id
PositionOf(type, id) ==
    CHOOSE i \in 1..Len(Stored(type)) : Stored(type)[i].id = id

\* C15: the sequence getTopEntities returns is ordered by non-increasing
\* metric value, and two returned entities with equal metric value are in
\* the relative order of the stored collection.
C15_TopSortedStable ==
    \A c \in Called("getTopEntities") :
        /\ c.ret.t = "entities"
        /\ \A i, j \in 1..Len(c.ret.v) :
              i < j =>
                LET type == c.params.entityType.s
                    vi == ValueOf(c.ret.v[i], c.params.metric.s)
                    vj == ValueOf(c.ret.v[j], c.params.metric.s)
                IN  /\ (vi.k = "number" /\ vj.k = "number") => vi.n >= vj.n
                    /\ vi = vj => PositionOf(type, c.ret.v[i].id)
                                      < PositionOf(type, c.ret.v[j].id)

\* the first and third author both have 4823 citations and the second has
\* 8912: the second comes first, then the first, then the third
C15_Witness ==
    \E c \in Called("getTopEntities") :
        /\ c.params.entityType.s = "author"
        /\ c.params.metric.s = "citations"
        /\ mockAuthors[1].metrics.citations = Num(4823)
        /\ mockAuthors[2].metrics.citations = Num(8912)
        /\ mockAuthors[3].metrics.citations = Num(4823)
        /\ c.ret.t = "entities"
        /\ [i \in 1..Len(c.ret.v) |-> c.ret.v[i].id]
              = <<"auth_002", "auth_001", "auth_003">>

\* the smaller of two numbers
Min(a, b) == IF a <= b THEN a ELSE b

\* C16: for every limit the schema accepts (any number; 10 when omitted),
\* getTopEntities returns min(limit, size of the selected collection)
\* entities.  The limit is in hundredths, like every number.
C16_TopCountIsMin ==
    \A c \in Called("getTopEntities") :
        /\ c.ret.t = "entities"
        /\ Len(c.ret.v) * 100
              = Min(c.params.limit.n, Len(Stored(c.params.entityType.s)) * 100)

\* the query strings a client sends
QueryStrings == {q.s : q \in {v \in QueryValues : v.k = "string"}}

\* two strings that differ at most in the case of their letters
DifferOnlyInCase(t, u) ==
    /\ Len(Chars(t)) = Len(Chars(u))
    /\ \A i \in 1..Len(Chars(t)) : LowerOf(Chars(t)[i]) = LowerOf(Chars(u)[i])

\* C17: two searchEntities calls with the same entityType and limit whose
\* query strings differ only in letter case return identical sequences.
C17_SearchIgnoresCase ==
    \A c \in Called("searchEntities") :
        \A other \in QueryStrings :
            DifferOnlyInCase(c.params.query.s, other)
                => searchEntities([c.params EXCEPT !.query = Str(other)]) = c.ret

\* "chen" and "CHEN" both find Dr. Sarah Chen
C17_Witness ==
    \E c \in Called("searchEntities") :
        /\ c.params.entityType.s = "author"
        /\ c.params.query.s = "chen"
        /\ c.params.limit = Num(10)
        /\ c.ret.t = "entities"
        /\ Len(c.ret.v) = 1
        /\ c.ret.v[1].id = "auth_001"
        /\ DifferOnlyInCase("chen", "CHEN")
        /\ searchEntities([c.params EXCEPT !.query = Str("CHEN")]) = c.ret

\* a name that contains a query as a substring, letter case ignored
ContainsIgnoringCase(name, query) ==
    \E offset \in 0..(Len(Chars(name)) - Len(Chars(query))) :
        \A j \in 1..Len(Chars(query)) :
            LowerOf(Chars(name)[offset + j]) = LowerOf(Chars(query)[j])

\* how many elements "the first limit elements" of a list of len are: the
\* whole part of limit, none for a negative limit, at most len
FirstCount(limit, len) ==
    IF limit.n < 0 THEN 0 ELSE Min(limit.n \div 100, len)

\* C18: searchEntities returns the first limit elements of the entities of
\* the type whose name contains query as a case-insensitive substring, in
\* stored order: of the whole collection for the empty query, the empty
\* list for a query no name contains.
C18_SearchFirstMatches ==
    \A c \in Called("searchEntities") :
        LET Hit(e) == ContainsIgnoringCase(e.name, c.params.query.s)
            matching == SelectSeq(Stored(c.params.entityType.s), Hit)
        IN  /\ c.ret.t = "entities"
            /\ c.ret.v = SubSeq(matching, 1, FirstCount(c.params.limit, Len(matching)))
            /\ c.params.query.s = ""
                  => Len(matching) = Len(Stored(c.params.entityType.s))

-----------------------------------------------------------------------------
(* Claims about introspection *)

\* the registry keys as queries.ts lists them
SixNamesInOrder ==
    <<"getEntity", "searchEntities", "getMetrics", "compareEntities",
      "getTrend", "getTopEntities">>

\* C19: Introspect answers with exactly one entry per registered function:
\* six entries, named by the six registry keys in registry order, each with
\* the function's description and its rendered parameter schema.
C19_IntrospectListsRegistry ==
    request.route = "functions"
        => /\ response.status = 200
           /\ response.kind = "functions"
           /\ [i \in 1..Len(response.functions) |-> response.functions[i].name]
                 = SixNamesInOrder
           /\ \A i \in 1..Len(response.functions) :
                 /\ response.functions[i].description = Registry[i].description
                 /\ response.functions[i].parameters
                       = zodToJsonSchema(Registry[i].schema)
                 /\ [j \in 1..Len(response.functions[i].parameters.properties) |->
                        response.functions[i].parameters.properties[j].key]
                       = [j \in 1..Len(Registry[i].schema) |-> Registry[i].schema[j].key]

\* the listing, with getTrend fifth
C19_Witness ==
    /\ request.route = "functions"
    /\ Len(response.functions) = 6
    /\ response.functions[5].name = "getTrend"
    /\ response.functions[5].description
          = "Get trend data for an entity metric over a time period"
    /\ Len(response.functions[5].parameters.properties) = 4

\* the required list Introspect renders for a function
RenderedRequired(functionName) ==
    Range(zodToJsonSchema(SchemaOf(functionName)).required)

\* a value of the type, and among the enum's values, a rendered property
\* asks for
TypeCorrect(property, v) ==
    /\ property.type = "string" => v.k = "string"
    /\ property.type = "number" => v.k = "number"
    /\ property.type = "array"
          => v.k = "array" /\ \A i \in 1..Len(v.a) : v.a[i].k = "string"
    /\ property.enum # {} => v.k = "string" /\ v.s \in property.enum

\* a body that carries type-correct values for the required parameters of
\* a function and nothing else
SuppliesExactlyRequired(functionName, body) ==
    /\ body.k = "object"
    /\ \A f \in Fields :
          body.props[f].k # "undefined" <=> f \in RenderedRequired(functionName)
    /\ \A property \in Range(zodToJsonSchema(SchemaOf(functionName)).properties) :
          property.key \in RenderedRequired(functionName)
              => TypeCorrect(property, body.props[property.key])

\* C20: the required list Introspect renders for a function holds a
\* parameter exactly when the registered schema neither marks it optional
\* nor gives it a default (so not limit, metricNames, startYear, endYear),
\* and an Invoke that supplies type-correct values for exactly the required
\* parameters does not fail validation.
C20_RequiredMirrorsSchema ==
    /\ request.route = "functions"
          => \A i \in 1..Len(response.functions) :
                \A j \in 1..Len(Registry[i].schema) :
                    LET field == Registry[i].schema[j]
                    IN  /\ field.key \in Range(response.functions[i].parameters.required)
                              <=> (~field.optional /\ field.default.k = "undefined")
                        /\ field.key \in NotRequired
                              => field.key \notin
                                     Range(response.functions[i].parameters.required)
                        /\ field.key \notin NotRequired
                              => field.key \in
                                     Range(response.functions[i].parameters.required)
    /\ (HandledQuery /\ request.functionName \in SixNames
           /\ SuppliesExactlyRequired(request.functionName, request.body))
          => /\ response.status # 400
             /\ Len(calls) = 1

\* getTopEntities asked with entityType and metric only: limit is not
\* required, and the call runs with the default 10
C20_Witness ==
    /\ HandledQuery
    /\ request.functionName = "getTopEntities"
    /\ RenderedRequired("getTopEntities") = {"entityType", "metric"}
    /\ SuppliesExactlyRequired(request.functionName, request.body)
    /\ request.body.props.limit.k = "undefined"
    /\ response.status = 200
    /\ Len(calls) = 1
    /\ calls[1].params.limit = Num(10)

-----------------------------------------------------------------------------
(* Claims about defaults, batches, frames and determinism *)

\* C21: an Invoke of searchEntities or getTopEntities without limit is
\* answered as the same request with limit 10: the function runs with
\* limit = 10 and returns at most 10 entities.
C21_OmittedLimitIsTen ==
    (/\ HandledQuery
     /\ request.functionName \in {"searchEntities", "getTopEntities"}
     /\ request.body.k = "object"
     /\ request.body.props.limit.k = "undefined")
        => /\ response = QueryReply(request.functionName,
                                    [request.body EXCEPT !.props.limit = Num(10)])
           /\ \A c \in Range(calls) :
                 /\ c.params.limit = Num(10)
                 /\ c.ret.t = "entities"
                 /\ Len(c.ret.v) <= 10

\* eleven journals ranked by sjr without a limit: ten come back
C21_Witness ==
    /\ HandledQuery
    /\ request.functionName = "getTopEntities"
    /\ request.body.props.entityType = Str("journal")
    /\ request.body.props.metric = Str("sjr")
    /\ request.body.props.limit.k = "undefined"
    /\ Len(mockJournals) = 11
    /\ Len(calls) = 1
    /\ calls[1].params.limit = Num(10)
    /\ response.result.t = "entities"
    /\ Len(response.result.v) = 10

RankOf(e, metric) ==
    IF metric \in DOMAIN e.metrics /\ e.metrics[metric].k = "number"
    THEN e.metrics[metric].n
    ELSE 0

\* an entity that comes before another in the ranking by a metric: by the
\* larger rank, by the stored position between equal ranks
RankedBefore(type, metric, e, f) ==
    \/ RankOf(e, metric) > RankOf(f, metric)
    \/ /\ RankOf(e, metric) = RankOf(f, metric)
       /\ PositionOf(type, e.id) < PositionOf(type, f.id)

\* C23: getTopEntities drops no entity for lacking the metric.  It returns
\* as many entities as the truncation of the whole collection to limit
\* holds, an entity without a value for metric ranked as one with value 0;
\* for a metric no entity of the type has, the result is the stored
\* collection truncated to limit.
C23_MissingMetricRanksAsZero ==
    \A c \in Called("getTopEntities") :
        LET type == c.params.entityType.s
            metric == c.params.metric.s
            stored == Stored(type)
        IN  /\ c.ret.t = "entities"
            /\ Len(c.ret.v) = Len(Slice0(stored, c.params.limit))
            /\ \A i \in 1..Len(c.ret.v) :
                  /\ c.ret.v[i] \in Range(stored)
                  /\ \A j \in 1..Len(c.ret.v) :
                        i < j => RankedBefore(type, metric, c.ret.v[i], c.ret.v[j])
                  /\ \A e \in Range(stored) \ Range(c.ret.v) :
                        RankedBefore(type, metric, c.ret.v[i], e)
            /\ (\A e \in Range(stored) : metric \notin DOMAIN e.metrics)
                  => c.ret.v = Slice0(stored, c.params.limit)

\* eleven journals, four of them without an sjr, ranked by sjr: the top ten
\* end with three of those four, in stored order
C23_Witness ==
    \E c \in Called("getTopEntities") :
        /\ c.params.entityType.s = "journal"
        /\ c.params.metric.s = "sjr"
        /\ c.params.limit = Num(10)
        /\ Len(mockJournals) = 11
        /\ c.ret.t = "entities"
        /\ Len(c.ret.v) = 10
        /\ "sjr" \in DOMAIN c.ret.v[7].metrics
        /\ [i \in 1..3 |-> c.ret.v[7 + i].id] = <<"jour_004", "jour_006", "jour_008">>
        /\ \A i \in 8..10 : "sjr" \notin DOMAIN c.ret.v[i].metrics

\* the metric names a client sends to getTrend
TrendMetricStrings == {m.s : m \in {v \in TrendMetricValues : v.k = "string"}}

MetricNamesGiven ==
    {v \in MetricNamesValues :
        v.k = "undefined" \/ (v.k = "array" /\ \A i \in 1..Len(v.a) : v.a[i].k = "string")}

C26_DatasetAndRegistryFixed ==
    /\ mockAuthors = FixtureAuthors
    /\ mockInstitutions = FixtureInstitutions
    /\ mockJournals = FixtureJournals
    /\ mockTrends = FixtureTrends
    /\ queryFunctions = Registry

\* the authors ranked by citations, auth_002 first, while the stored
\* collection still starts with auth_001
C26_Witness ==
    /\ \E c \in Called("getTopEntities") :
          /\ c.params.entityType.s = "author"
          /\ c.params.metric.s = "citations"
          /\ c.ret.t = "entities"
          /\ Len(c.ret.v) = 3
          /\ c.ret.v[1].id = "auth_002"
    /\ mockAuthors[1].id = "auth_001"
    /\ mockAuthors = FixtureAuthors

\* C27: the envelope of an Invoke is a function of functionName and the
\* raw parameters only: a request a client has noted with its envelope gets
\* the same envelope again, whatever requests were served in between.
C27_SameRequestSameEnvelope ==
    (HandledQuery /\ earlier.noted
       /\ request.functionName = earlier.request.functionName
       /\ request.body = earlier.request.body)
        => response = earlier.response

\* the search for all authors, noted with its three results and answered
\* with them again
C27_Witness ==
    /\ HandledQuery
    /\ earlier.noted
    /\ request = earlier.request
    /\ request.functionName = "searchEntities"
    /\ request.body.props.query = Str("")
    /\ response = earlier.response
    /\ response.result.t = "entities"
    /\ Len(response.result.v) = 3

\* the envelopes a response carries: the JSON body a handler sends, none
\* when the response is the error page of Express
Envelopes(reply) ==
    IF reply.kind \in {"result", "error", "results"} THEN <<reply>> ELSE <<>>

\* C28: every Invoke and InvokeBatch request ends with exactly one response
\* envelope, on every path: unknown function, validation failure, execution
\* fault, success, a queries body that is no array, a batch with malformed
\* items.
C28_OneEnvelopePerRequest ==
    request.route \in {"query", "batch"} => Len(Envelopes(response)) = 1

\* the functions that take an entityType
TakesEntityType ==
    {"getEntity", "searchEntities", "getMetrics", "compareEntities",
     "getTopEntities"}

\* C29: whenever a query function that takes an entityType is executed
\* through Invoke or InvokeBatch, its entityType is author, institution or
\* journal, so the type switch selects a collection and the function
\* neither returns undefined nor fails on an unassigned result.
C29_ExecutedWithKnownType ==
    \A c \in Range(calls) :
        c.fn \in TakesEntityType
            => /\ c.params.entityType.k = "string"
               /\ c.params.entityType.s \in {"author", "institution", "journal"}
               /\ c.ret.t \notin {"undefined", "throw"}

\* a batch of a getEntity for a "paper" and one for an author: only the
\* second is executed
C29_Witness ==
    /\ HandledBatch
    /\ Len(request.queries.items) = 2
    /\ request.queries.items[1].params.props.entityType = Str("paper")
    /\ response.kind = "results"
    /\ ~response.results[1].success
    /\ response.results[1].error = <<"Invalid parameters">>
    /\ response.results[2].success
    /\ Len(calls) = 1
    /\ calls[1].fn = "getEntity"
    /\ calls[1].params.entityType = Str("author")
    /\ calls[1].ret.t = "entity"

\* C30: every entity getTopEntities returns belongs to the collection
\* entityType selects, none is returned twice, and with a limit of at least
\* the collection's size the result is a permutation of the collection.
C30_TopIsSelectionOfCollection ==
    \A c \in Called("getTopEntities") :
        LET stored == Stored(c.params.entityType.s)
        IN  /\ c.ret.t = "entities"
            /\ \A i \in 1..Len(c.ret.v) : c.ret.v[i] \in Range(stored)
            /\ \A i, j \in 1..Len(c.ret.v) :
                  c.ret.v[i].id = c.ret.v[j].id => i = j
            /\ c.params.limit.n >= Len(stored) * 100
                  => /\ Len(c.ret.v) = Len(stored)
                     /\ Range(c.ret.v) = Range(stored)

\* the three institutions ranked by publications with limit 3: Oxford, MIT,
\* ETH Zurich
C30_Witness ==
    \E c \in Called("getTopEntities") :
        /\ c.params.entityType.s = "institution"
        /\ c.params.metric.s = "publications"
        /\ c.params.limit = Num(3)
        /\ c.ret.t = "entities"
        /\ [i \in 1..Len(c.ret.v) |-> c.ret.v[i].id]
              = <<"inst_002", "inst_001", "inst_003">>

====
